---- MODULE Spec2Model ----
(***************************************************************************)
(* A model of src/main.py: the resume -> specification -> portfolio site   *)
(* pipeline and the Streamlit script that drives it.                       *)
(*                                                                         *)
(* A text (a Python str) is a sequence of Unicode code points; a bytes     *)
(* value is a sequence of numbers 0..255.  An optional value (a Python     *)
(* value that may be None) is a sequence of length 0 (None) or 1.          *)
(***************************************************************************)
EXTENDS Integers, Sequences, FiniteSets, TLC

VARIABLES
    spec_text,    \* st.session_state.spec_text
    html_code,    \* st.session_state.html_code
    css_code,     \* st.session_state.css_code
    js_code,      \* st.session_state.js_code
    zip_bytes,    \* st.session_state.zip_bytes (optional)
    spec_editor,  \* st.session_state.spec_editor, the review editor's contents (optional)
    run,          \* what the last run of the script did and rendered
    fin,          \* input of the function under study (function specifications)
    fout,         \* its result
    fpc           \* "session" | "input" | "done"

vars == <<spec_text, html_code, css_code, js_code, zip_bytes, spec_editor, run, fin, fout, fpc>>

session == <<spec_text, html_code, css_code, js_code, zip_bytes, spec_editor, run>>

None == <<>>

Some(v) == <<v>>

\* ------------------------------------------------------------------ bounds

\* longest generated segment, in chunks (ParseSpec)
MaxSegLen == 2

\* longest packaged text, in code points (ZipSpec)
MaxTextLen == 2

\* longest HTML fragment, in chunks (ThemeSpec)
MaxFragLen == 3

\* ------------------------------------------------------------ text literals

\* '--html--'
MARKER_HTML ==
    <<45, 45, 104, 116, 109, 108, 45, 45>>

\* '--css--'
MARKER_CSS ==
    <<45, 45, 99, 115, 115, 45, 45>>

\* '--js--'
MARKER_JS ==
    <<45, 45, 106, 115, 45, 45>>

\* 'Here is the full resume text:\n\n'
SPEC_USER_PREFIX ==
    <<72, 101, 114, 101, 32, 105, 115, 32, 116, 104, 101, 32, 102, 117, 108, 108, 32, 114, 101,
    115, 117, 109, 101, 32, 116, 101, 120, 116, 58, 10, 10>>

\* 'Here is the structured website specification:\n\n'
SITE_USER_PREFIX ==
    <<72, 101, 114, 101, 32, 105, 115, 32, 116, 104, 101, 32, 115, 116, 114, 117, 99, 116, 117,
    114, 101, 100, 32, 119, 101, 98, 115, 105, 116, 101, 32, 115, 112, 101, 99, 105, 102, 105,
    99, 97, 116, 105, 111, 110, 58, 10, 10>>

\* '<a '
ANCHOR_OPEN ==
    <<60, 97, 32>>

\* '<a target="_blank" rel="noopener noreferrer" '
ANCHOR_SAFE ==
    <<60, 97, 32, 116, 97, 114, 103, 101, 116, 61, 34, 95, 98, 108, 97, 110, 107, 34, 32, 114,
    101, 108, 61, 34, 110, 111, 111, 112, 101, 110, 101, 114, 32, 110, 111, 114, 101, 102,
    101, 114, 114, 101, 114, 34, 32>>

\* '<!DOCTYPE html><html><head>'
SHELL_HEAD ==
    <<60, 33, 68, 79, 67, 84, 89, 80, 69, 32, 104, 116, 109, 108, 62, 60, 104, 116, 109, 108,
    62, 60, 104, 101, 97, 100, 62>>

\* '</head><body>'
SHELL_MID ==
    <<60, 47, 104, 101, 97, 100, 62, 60, 98, 111, 100, 121, 62>>

\* '</body></html>'
SHELL_TAIL ==
    <<60, 47, 98, 111, 100, 121, 62, 60, 47, 104, 116, 109, 108, 62>>

\* '.pdf'
SUFFIX_PDF ==
    <<46, 112, 100, 102>>

\* '.docx'
SUFFIX_DOCX ==
    <<46, 100, 111, 99, 120>>

\* '\n'
NEWLINE ==
    <<10>>

\* the style block of force_light_theme, with the whitespace around it
override_css ==
    <<10, 32, 32, 32, 32, 60, 115, 116, 121, 108, 101, 62, 10, 32, 32, 32, 32, 98, 111, 100,
    121, 44, 32, 104, 116, 109, 108, 32, 123, 10, 32, 32, 32, 32, 32, 32, 32, 32, 98, 97, 99,
    107, 103, 114, 111, 117, 110, 100, 45, 99, 111, 108, 111, 114, 58, 32, 35, 102, 102, 102,
    102, 102, 102, 32, 33, 105, 109, 112, 111, 114, 116, 97, 110, 116, 59, 10, 32, 32, 32, 32,
    32, 32, 32, 32, 99, 111, 108, 111, 114, 58, 32, 35, 49, 49, 49, 49, 49, 49, 32, 33, 105,
    109, 112, 111, 114, 116, 97, 110, 116, 59, 10, 32, 32, 32, 32, 125, 10, 32, 32, 32, 32,
    42, 32, 123, 10, 32, 32, 32, 32, 32, 32, 32, 32, 99, 111, 108, 111, 114, 58, 32, 105, 110,
    104, 101, 114, 105, 116, 32, 33, 105, 109, 112, 111, 114, 116, 97, 110, 116, 59, 10, 32,
    32, 32, 32, 125, 10, 32, 32, 32, 32, 97, 32, 123, 10, 32, 32, 32, 32, 32, 32, 32, 32, 99,
    111, 108, 111, 114, 58, 32, 35, 49, 97, 55, 51, 101, 56, 32, 33, 105, 109, 112, 111, 114,
    116, 97, 110, 116, 59, 10, 32, 32, 32, 32, 125, 10, 32, 32, 32, 32, 60, 47, 115, 116, 121,
    108, 101, 62, 10, 32, 32, 32, 32>>

\* ------------------------------------------------------- Python str methods

\* the code points str.strip() removes (str.isspace)
Whitespace ==
    {9, 10, 11, 12, 13, 28, 29, 30, 31, 32, 133, 160, 5760, 8232, 8233, 8239, 8287, 12288}
    \cup (8192..8202)

\* s[i:] for a 1-based i
Tail_from(s, i) == SubSeq(s, i, Len(s))

\* s.startswith(p, i) for a 1-based i
StartsAt(s, p, i) ==
    /\ i + Len(p) - 1 <= Len(s)
    /\ \A k \in 1..Len(p) : s[i + k - 1] = p[k]

\* s.find(sep): the 1-based index of the leftmost occurrence, 0 when there is none
find(s, sep) ==
    IF \E i \in 1..Len(s) : StartsAt(s, sep, i)
    THEN CHOOSE i \in 1..Len(s) :
            /\ StartsAt(s, sep, i)
            /\ \A j \in 1..(i - 1) : ~StartsAt(s, sep, j)
    ELSE 0

RECURSIVE split(_, _)
\* s.split(sep) for a nonempty sep: cut at the leftmost occurrence, go on after it
split(s, sep) ==
    LET i == find(s, sep) IN
    IF i = 0 THEN <<s>>
    ELSE <<SubSeq(s, 1, i - 1)>> \o split(Tail_from(s, i + Len(sep)), sep)

RECURSIVE join(_, _)
\* sep.join(parts)
join(parts, sep) ==
    IF Len(parts) = 0 THEN <<>>
    ELSE IF Len(parts) = 1 THEN parts[1]
    ELSE parts[1] \o sep \o join(Tail(parts), sep)

\* s.replace(old, new) for a nonempty old: every non-overlapping occurrence, left to right
replace(s, old, new) == join(split(s, old), new)

\* s.strip()
strip(s) ==
    LET keep == {i \in 1..Len(s) : s[i] \notin Whitespace} IN
    IF keep = {} THEN <<>>
    ELSE SubSeq(s, CHOOSE i \in keep : \A j \in keep : i <= j,
                   CHOOSE i \in keep : \A j \in keep : j <= i)

\* s.lower() on ASCII letters (the names of the model are ASCII)
lower(s) == [i \in 1..Len(s) |-> IF s[i] \in 65..90 THEN s[i] + 32 ELSE s[i]]

\* s.endswith(suffix)
endswith(s, suffix) ==
    /\ Len(suffix) <= Len(s)
    /\ SubSeq(s, Len(s) - Len(suffix) + 1, Len(s)) = suffix

RECURSIVE Concat(_)
\* the concatenation of a sequence of texts
Concat(chunks) == IF chunks = <<>> THEN <<>> ELSE Head(chunks) \o Concat(Tail(chunks))

\* the sequences over S of length at most n
SeqsUpTo(S, n) == UNION {[1..k -> S] : k \in 0..n}

\* -------------------------------------------------------- site synthesizer

\* a segment cut with the index of the split that is taken wrongly
extract_between_first_piece(marker, text) ==
    LET parts == split(text, marker) IN
    IF Len(parts) < 3 THEN <<>> ELSE strip(parts[1])

\* build_website_from_spec.extract_between
extract_between(marker, text) ==
    LET parts == split(text, marker) IN
    IF Len(parts) < 3 THEN <<>> ELSE strip(parts[2])

\* build_website_from_spec, from the model's response on: the three segments
build_website_from_spec(raw) ==
    [html |-> extract_between(MARKER_HTML, raw),
     css  |-> extract_between(MARKER_CSS, raw),
     js   |-> extract_between(MARKER_JS, raw)]

\* the two turns build_website_from_spec sends
site_messages(text) ==
    <<[role |-> "system", fixed |-> "SPEC_TO_WEBSITE_SYSTEM", text |-> <<>>],
      [role |-> "user", fixed |-> "", text |-> SITE_USER_PREFIX \o text]>>

\* the two turns build_spec_from_resume sends
spec_messages(resume_text) ==
    <<[role |-> "system", fixed |-> "RESUME_TO_SPEC_SYSTEM", text |-> <<>>],
      [role |-> "user", fixed |-> "", text |-> SPEC_USER_PREFIX \o resume_text]>>

\* ----------------------------------------------------------- text extractor

\* An uploaded file: its declared media type, its name, the container its bytes
\* really are ("pdf", "docx" or "other") and what that container holds: per page
\* the optional result of page.extract_text(), or per paragraph its text.

TYPE_PDF == "application/pdf"

TYPE_DOCX == "application/vnd.openxmlformats-officedocument.wordprocessingml.document"

TYPE_MSWORD == "application/msword"

\* the result of a call that may raise
Returned(text) == [raised |-> FALSE, text |-> text]

Raised == [raised |-> TRUE, text |-> <<>>]

\* extract_text_from_pdf: PdfReader raises on bytes that are no PDF
extract_text_from_pdf(file) ==
    IF file.format # "pdf" THEN Raised
    ELSE Returned(join([i \in 1..Len(file.units) |->
                            IF file.units[i] = None THEN <<>> ELSE file.units[i][1]],
                       NEWLINE))

\* extract_text_from_docx: Document raises on bytes that are no DOCX package
extract_text_from_docx(file) ==
    IF file.format # "docx" THEN Raised
    ELSE Returned(join([i \in 1..Len(file.units) |-> file.units[i][1]], NEWLINE))

\* the branch of extract_resume_text a file takes
chosen_extractor(file) ==
    IF file.type = TYPE_PDF \/ endswith(lower(file.name), SUFFIX_PDF) THEN "pdf"
    ELSE IF \/ file.type \in {TYPE_DOCX, TYPE_MSWORD}
            \/ endswith(lower(file.name), SUFFIX_DOCX) THEN "docx"
    ELSE "none"

\* extract_resume_text, of an optional file
extract_resume_text(uploaded_file) ==
    IF uploaded_file = None THEN Returned(<<>>)
    ELSE LET file == uploaded_file[1] IN
         CASE chosen_extractor(file) = "pdf"  -> extract_text_from_pdf(file)
           [] chosen_extractor(file) = "docx" -> extract_text_from_docx(file)
           [] OTHER -> Returned(<<>>)

\* --------------------------------------------------------- archive packager

\* str.encode("utf-8") of one code point (a Unicode scalar value)
utf8_of(cp) ==
    IF cp < 128 THEN <<cp>>
    ELSE IF cp < 2048 THEN <<192 + (cp \div 64), 128 + (cp % 64)>>
    ELSE IF cp < 65536 THEN
        <<224 + (cp \div 4096), 128 + ((cp \div 64) % 64), 128 + (cp % 64)>>
    ELSE <<240 + (cp \div 262144), 128 + ((cp \div 4096) % 64),
           128 + ((cp \div 64) % 64), 128 + (cp % 64)>>

RECURSIVE encode_utf8(_)
\* ZipFile.writestr encodes a str as UTF-8
encode_utf8(text) ==
    IF text = <<>> THEN <<>> ELSE utf8_of(Head(text)) \o encode_utf8(Tail(text))

RECURSIVE decode_utf8(_)
\* bytes.decode("utf-8") of a well-formed byte sequence
decode_utf8(bytes) ==
    IF bytes = <<>> THEN <<>>
    ELSE LET b == bytes[1] IN
         IF b < 128 THEN <<b>> \o decode_utf8(Tail_from(bytes, 2))
         ELSE IF b < 224 THEN
            <<(b - 192) * 64 + (bytes[2] - 128)>> \o decode_utf8(Tail_from(bytes, 3))
         ELSE IF b < 240 THEN
            <<(b - 224) * 4096 + (bytes[2] - 128) * 64 + (bytes[3] - 128)>>
                \o decode_utf8(Tail_from(bytes, 4))
         ELSE
            <<(b - 240) * 262144 + (bytes[2] - 128) * 4096 + (bytes[3] - 128) * 64
                + (bytes[4] - 128)>> \o decode_utf8(Tail_from(bytes, 5))

\* ZipFile.writestr(name, text): one stored entry appended to the archive
writestr(archive, name, text) == Append(archive, [name |-> name, data |-> encode_utf8(text)])

\* an archive whose entries hold each other's content
create_zip_bytes_crossed(html, css, js) ==
    writestr(writestr(writestr(<<>>, "index.html", html), "style.css", js), "script.js", css)

\* create_zip_bytes: the archive as the sequence of its entries, in the order written
create_zip_bytes(html, css, js) ==
    writestr(writestr(writestr(<<>>, "index.html", html), "style.css", css), "script.js", js)

\* ZipFile.namelist()
namelist(archive) == [i \in 1..Len(archive) |-> archive[i].name]

\* ZipFile.read(name).decode("utf-8"): the text of the entry of that name
read_text(archive, name) ==
    decode_utf8(archive[CHOOSE i \in 1..Len(archive) : archive[i].name = name].data)

\* --------------------------------------------------------- preview sanitizer

\* a shell with no style block in it
force_light_theme_unstyled(html) == SHELL_HEAD \o SHELL_MID \o html \o SHELL_TAIL

\* force_light_theme
force_light_theme(html) == SHELL_HEAD \o override_css \o SHELL_MID \o html \o SHELL_TAIL

\* sanitize_html_for_preview
sanitize_html_for_preview(html) ==
    force_light_theme(replace(html, ANCHOR_OPEN, ANCHOR_SAFE))

\* ------------------------------------------------------------- the session

MSG_NO_FILE == "Please upload a resume first."

MSG_NO_TEXT == "Could not extract text from the uploaded file. Check the format."

MSG_SPEC_OK == "Website specification generated successfully."

MSG_SITE_OK == "Website source code generated."

\* st.error(text) and st.success(text), as elements of the page
Error(text) == [kind |-> "error", text |-> text]

Success(text) == [kind |-> "success", text |-> text]

\* the test of line 227 with the strip left out
has_text_unstripped(resume_text) == resume_text # <<>>

\* line 227: the extracted text is usable
has_text(resume_text) == strip(resume_text) # <<>>

\* a run of the script in which no button was pressed and nothing was raised
QuietRun ==
    [button |-> "none", file |-> None, extractor |-> "none", resume |-> None,
     shown |-> <<>>, calls |-> <<>>, failure |-> "none", escaped |-> FALSE,
     stored |-> FALSE, raw |-> None, packaged |-> FALSE,
     editor_rendered |-> FALSE, site_btn_rendered |-> FALSE, right_rendered |-> TRUE]

\* lines 221-232: the 'Generate Website Specification' handler, given the file in
\* the uploader, the outcome of llm.invoke (used when the call is made) and the
\* stored specification text.  No statement of the handler catches an exception.
spec_handler(uploaded, outcome, stored_text) ==
    LET base == [QuietRun EXCEPT !.button = "spec", !.file = uploaded]
        ext  == extract_resume_text(uploaded)
    IN
    IF uploaded = None THEN
        [spec_text |-> stored_text,
         run |-> [base EXCEPT !.shown = <<Error(MSG_NO_FILE)>>]]
    ELSE IF ext.raised THEN
        [spec_text |-> stored_text,
         run |-> [base EXCEPT !.extractor = chosen_extractor(uploaded[1]),
                              !.failure = "extract", !.escaped = TRUE,
                              !.right_rendered = FALSE]]
    ELSE IF ~has_text(ext.text) THEN
        [spec_text |-> stored_text,
         run |-> [base EXCEPT !.extractor = chosen_extractor(uploaded[1]),
                              !.resume = Some(ext.text),
                              !.shown = <<Error(MSG_NO_TEXT), Success(MSG_SPEC_OK)>>]]
    ELSE IF outcome.raised THEN
        [spec_text |-> stored_text,
         run |-> [base EXCEPT !.extractor = chosen_extractor(uploaded[1]),
                              !.resume = Some(ext.text),
                              !.calls = <<spec_messages(ext.text)>>,
                              !.failure = "model", !.escaped = TRUE,
                              !.right_rendered = FALSE]]
    ELSE
        [spec_text |-> outcome.text,
         run |-> [base EXCEPT !.extractor = chosen_extractor(uploaded[1]),
                              !.resume = Some(ext.text),
                              !.calls = <<spec_messages(ext.text)>>,
                              !.stored = TRUE,
                              !.shown = <<Success(MSG_SPEC_OK)>>]]

\* the gate of line 252 with 'or' for 'and'
packaged_if_any(website, stored_zip) ==
    IF website.html # <<>> \/ website.css # <<>> \/ website.js # <<>>
    THEN [invoked |-> TRUE,
          zip |-> Some(create_zip_bytes(website.html, website.css, website.js))]
    ELSE [invoked |-> FALSE, zip |-> stored_zip]

\* lines 252-255: create_zip_bytes is invoked, and the stored archive replaced, only
\* when all three segments are nonempty
packaged(website, stored_zip) ==
    IF website.html # <<>> /\ website.css # <<>> /\ website.js # <<>>
    THEN [invoked |-> TRUE,
          zip |-> Some(create_zip_bytes(website.html, website.css, website.js))]
    ELSE [invoked |-> FALSE, zip |-> stored_zip]

\* line 247: the text handed to build_website_from_spec
synthesis_input(stored_text, editor) == stored_text

\* lines 245-256: the 'Generate Portfolio Website' handler, given the outcome of
\* llm.invoke and the session state.  No statement of the handler catches an exception.
site_handler(outcome, stored_text, editor, stored) ==
    LET base == [QuietRun EXCEPT !.button = "site",
                                 !.calls = <<site_messages(synthesis_input(stored_text, editor))>>,
                                 !.editor_rendered = TRUE, !.site_btn_rendered = TRUE]
        website == build_website_from_spec(outcome.text)
        zip == packaged(website, stored.zip)
    IN
    IF outcome.raised THEN
        [html |-> stored.html, css |-> stored.css, js |-> stored.js, zip |-> stored.zip,
         run |-> [base EXCEPT !.failure = "model", !.escaped = TRUE,
                              !.right_rendered = FALSE]]
    ELSE
        [html |-> website.html, css |-> website.css, js |-> website.js, zip |-> zip.zip,
         run |-> [base EXCEPT !.raw = Some(outcome.text),
                              !.packaged = zip.invoked,
                              !.shown = <<Success(MSG_SITE_OK)>>]]

\* lines 234-241: the states the keyed text_area can be in after a run.  It is
\* rendered when the run reached line 234 with a nonempty specification text; a
\* widget that is not rendered loses its state (after a run that raised, the
\* framework may keep it), a new widget starts from value=, and a widget whose
\* value= changed either restarts from it or keeps its contents.
editor_after(editor, old_text, new_text, rendered, escaped) ==
    IF ~rendered THEN (IF escaped THEN {None, editor} ELSE {None})
    ELSE IF editor = None THEN {Some(new_text)}
    ELSE IF new_text = old_text THEN {editor}
    ELSE {Some(new_text), editor}

\* lines 258-266: the preview the right column renders
preview ==
    IF ~run.right_rendered \/ html_code = <<>> THEN None
    ELSE Some(sanitize_html_for_preview(html_code))

\* lines 270-279: the archive the download button offers
download == IF run.right_rendered THEN zip_bytes ELSE None

\* ------------------------------------------------------------------ inputs

\* 'Hi'
TEXT_HI == <<72, 105>>

\* 'Jo'
TEXT_JO == <<74, 111>>

\* 'cv.pdf'
NAME_PDF == <<99, 118, 46, 112, 100, 102>>

\* 'CV.PDF'
NAME_PDF_UPPER == <<67, 86, 46, 80, 68, 70>>

\* 'cv.docx'
NAME_DOCX == <<99, 118, 46, 100, 111, 99, 120>>

\* 'cv.txt'
NAME_TXT == <<99, 118, 46, 116, 120, 116>>

File(type, name, format, units) ==
    [type |-> type, name |-> name, format |-> format, units |-> units]

\* The files a user may put in the uploader: PDF and DOCX files with and without
\* text, declared and named consistently or not, and a file that is neither.  The
\* uploader is given type=["pdf", "docx"] (line 216), which the framework applies
\* to the file name on its side; main.py itself accepts whatever it returns.
Files ==
    {File(TYPE_PDF, NAME_PDF, "pdf", <<Some(TEXT_HI), None>>),
     File(TYPE_PDF, NAME_PDF, "pdf", <<None, Some(<<>>)>>),
     File("text/plain", NAME_PDF_UPPER, "pdf", <<Some(TEXT_HI)>>),
     File(TYPE_DOCX, NAME_DOCX, "docx", <<Some(TEXT_HI), Some(TEXT_JO)>>),
     File(TYPE_MSWORD, NAME_DOCX, "docx", <<Some(<<32>>)>>),
     File("text/plain", NAME_DOCX, "docx", <<Some(TEXT_JO)>>),
     File(TYPE_DOCX, NAME_PDF, "docx", <<Some(TEXT_HI)>>),
     File(TYPE_PDF, NAME_DOCX, "other", <<>>),
     File("text/plain", NAME_TXT, "other", <<>>)}

\* the outcomes of llm.invoke: it raises, or returns one of the replies
ModelOutcomes(replies) == {Raised} \cup {Returned(r) : r \in replies}

\* the specification texts the model returns: '', 'S1', 'S2'
SpecReplies == {<<>>, <<83, 49>>, <<83, 50>>}

\* what the user types into the review editor: 'E'
EditTexts == {<<69>>}

\* the markers of a response, in the order asked for
Markers == <<MARKER_HTML, MARKER_CSS, MARKER_JS>>

\* a segment between n of its two markers
Delimited(marker, segment, n) ==
    CASE n = 2 -> marker \o segment \o marker
      [] n = 1 -> marker \o segment
      [] OTHER -> segment

\* a response: the three segments, each with n[i] of its markers, sep between them
Response(segments, n, sep) ==
    Delimited(Markers[1], segments[1], n[1]) \o sep
        \o Delimited(Markers[2], segments[2], n[2]) \o sep
        \o Delimited(Markers[3], segments[3], n[3])

\* the site responses of the session: '\n<p>\n' as HTML, 'b ' as CSS, 'c' as JS,
\* every marker present twice, once or not at all
SiteReplies ==
    {Response(<<<<10, 60, 112, 62, 10>>, <<98, 32>>, <<99>>>>, n, NEWLINE) :
        n \in [1..3 -> 0..2]}

\* ----------------------------------------------------------------- actions

Init ==
    /\ spec_text = <<>>
    /\ html_code = <<>>
    /\ css_code = <<>>
    /\ js_code = <<>>
    /\ zip_bytes = None
    /\ spec_editor = None
    /\ run = QuietRun
    /\ fin = None
    /\ fout = None
    /\ fpc = "session"

\* the user presses 'Generate Website Specification'
GenerateSpec ==
    /\ fpc = "session"
    /\ \E uploaded \in {None} \cup {Some(f) : f \in Files},
          outcome \in ModelOutcomes(SpecReplies) :
        LET h == spec_handler(uploaded, outcome, spec_text)
            rendered == ~h.run.escaped /\ h.spec_text # <<>>
        IN
        /\ spec_text' = h.spec_text
        /\ run' = [h.run EXCEPT !.editor_rendered = rendered,
                                !.site_btn_rendered = rendered]
        /\ spec_editor' \in
                editor_after(spec_editor, spec_text, h.spec_text, rendered, h.run.escaped)
    /\ UNCHANGED <<html_code, css_code, js_code, zip_bytes, fin, fout, fpc>>

\* the user changes the text in the review editor; the script runs again
EditSpec ==
    /\ fpc = "session"
    /\ run.editor_rendered
    /\ \E text \in EditTexts : spec_editor' = Some(text)
    /\ run' = [QuietRun EXCEPT !.editor_rendered = TRUE, !.site_btn_rendered = TRUE]
    /\ UNCHANGED <<spec_text, html_code, css_code, js_code, zip_bytes, fin, fout, fpc>>

\* the user presses 'Generate Portfolio Website'
GenerateSite ==
    /\ fpc = "session"
    /\ run.site_btn_rendered
    /\ \E outcome \in ModelOutcomes(SiteReplies) :
        LET h == site_handler(outcome, spec_text, spec_editor,
                              [html |-> html_code, css |-> css_code, js |-> js_code,
                               zip |-> zip_bytes])
        IN
        /\ html_code' = h.html
        /\ css_code' = h.css
        /\ js_code' = h.js
        /\ zip_bytes' = h.zip
        /\ run' = h.run
    /\ UNCHANGED <<spec_text, spec_editor, fin, fout, fpc>>

\* any other interaction (a file put in or taken out of the uploader): the script
\* runs with no button pressed
Rerun ==
    /\ fpc = "session"
    /\ LET rendered == spec_text # <<>> IN
        /\ run' = [QuietRun EXCEPT !.editor_rendered = rendered,
                                   !.site_btn_rendered = rendered]
        /\ spec_editor' \in editor_after(spec_editor, spec_text, spec_text, rendered, FALSE)
    /\ UNCHANGED <<spec_text, html_code, css_code, js_code, zip_bytes, fin, fout, fpc>>

Next == GenerateSpec \/ EditSpec \/ GenerateSite \/ Rerun

Spec == Init /\ [][Next]_vars

\* ------------------------------------------------- the parser, on its own

\* the pieces segments are made of: '--', 'html', 'css', 'js', ' ', 'x'
SegChunks ==
    {<<45, 45>>, <<104, 116, 109, 108>>, <<99, 115, 115>>, <<106, 115>>, <<32>>, <<120>>}

\* the segments of at most MaxSegLen pieces
LongSegs == {Concat(c) : c \in SeqsUpTo(SegChunks, MaxSegLen)}

\* '', 'x', ' x\n', '--'
ShortSegs == {<<>>, <<120>>, <<32, 120, 10>>, <<45, 45>>}

\* three segments, one of them long, and the text between the marker pairs
ParseInputs ==
    {[segments |-> <<a, b, c>>, sep |-> sep] :
        a \in LongSegs, b \in ShortSegs, c \in ShortSegs, sep \in {<<>>, NEWLINE}}
    \cup {[segments |-> <<b, a, c>>, sep |-> sep] :
        a \in LongSegs, b \in ShortSegs, c \in ShortSegs, sep \in {<<>>, NEWLINE}}
    \cup {[segments |-> <<b, c, a>>, sep |-> sep] :
        a \in LongSegs, b \in ShortSegs, c \in ShortSegs, sep \in {<<>>, NEWLINE}}

\* the well-formed response made of an input
RawOf(input) == Response(input.segments, <<2, 2, 2>>, input.sep)

SessionIdle ==
    /\ spec_text = <<>>
    /\ html_code = <<>>
    /\ css_code = <<>>
    /\ js_code = <<>>
    /\ zip_bytes = None
    /\ spec_editor = None
    /\ run = QuietRun

ParseInit ==
    /\ SessionIdle
    /\ fin \in ParseInputs
    /\ fout = None
    /\ fpc = "input"

\* the parsing of build_website_from_spec applied to the response
Parse ==
    /\ fpc = "input"
    /\ fout' = build_website_from_spec(RawOf(fin))
    /\ fpc' = "done"
    /\ UNCHANGED <<fin, session>>

ParseNext == Parse

ParseSpec == ParseInit /\ [][ParseNext]_vars

\* ----------------------------------------------- the packager, on its own

\* 'a', 'e' acute, the euro sign, an emoji, a line feed: one code point for each
\* length of a UTF-8 sequence
ZipChars == {97, 233, 8364, 128512, 10}

\* the nonempty texts of at most MaxTextLen code points
LongTexts == SeqsUpTo(ZipChars, MaxTextLen) \ {<<>>}

\* 'a', 'e' acute then a line feed
ShortTexts == {<<97>>, <<233, 10>>}

ZipInputs ==
    {[html |-> a, css |-> b, js |-> c] : a \in LongTexts, b \in ShortTexts, c \in ShortTexts}
    \cup {[html |-> b, css |-> a, js |-> c] :
            a \in LongTexts, b \in ShortTexts, c \in ShortTexts}
    \cup {[html |-> b, css |-> c, js |-> a] :
            a \in LongTexts, b \in ShortTexts, c \in ShortTexts}

ZipInit ==
    /\ SessionIdle
    /\ fin \in ZipInputs
    /\ fout = None
    /\ fpc = "input"

\* create_zip_bytes applied to the three texts
Package ==
    /\ fpc = "input"
    /\ fout' = create_zip_bytes(fin.html, fin.css, fin.js)
    /\ fpc' = "done"
    /\ UNCHANGED <<fin, session>>

ZipNext == Package

ZipSpec == ZipInit /\ [][ZipNext]_vars

\* ---------------------------------------------- the sanitizer, on its own

\* '<style'
STYLE_OPEN == <<60, 115, 116, 121, 108, 101>>

\* '<body>'
BODY_OPEN == <<60, 98, 111, 100, 121, 62>>

\* '</body>'
BODY_CLOSE == <<60, 47, 98, 111, 100, 121, 62>>

\* the pieces fragments are made of: '<style>', '</style>', '<a ', 'x', '</body>'
FragChunks ==
    {<<60, 115, 116, 121, 108, 101, 62>>, <<60, 47, 115, 116, 121, 108, 101, 62>>,
     ANCHOR_OPEN, <<120>>, BODY_CLOSE}

\* the fragments of at most MaxFragLen pieces
Fragments == {Concat(c) : c \in SeqsUpTo(FragChunks, MaxFragLen)}

ThemeInit ==
    /\ SessionIdle
    /\ fin \in Fragments
    /\ fout = None
    /\ fpc = "input"

\* force_light_theme and sanitize_html_for_preview applied to the fragment
Theme ==
    /\ fpc = "input"
    /\ fout' = [themed |-> force_light_theme(fin), preview |-> sanitize_html_for_preview(fin)]
    /\ fpc' = "done"
    /\ UNCHANGED <<fin, session>>

ThemeNext == Theme

ThemeSpec == ThemeInit /\ [][ThemeNext]_vars

\* ----------------------------------------------------------------- claims

RECURSIVE Occurs(_, _)
\* the number of occurrences of sep in s, counted left to right without overlap
Occurs(s, sep) ==
    LET i == find(s, sep) IN
    IF i = 0 THEN 0 ELSE 1 + Occurs(Tail_from(s, i + Len(sep)), sep)

\* every index of s at which sep occurs
OccurrencesAt(s, sep) == {i \in 1..Len(s) : StartsAt(s, sep, i)}

\* the text strictly between the first and the second occurrence of sep in s
Between(s, sep) ==
    LET rest == Tail_from(s, find(s, sep) + Len(sep)) IN
    SubSeq(rest, 1, find(rest, sep) - 1)

\* the segments the session stores, in the order of Markers
StoredSegments == <<html_code, css_code, js_code>>

\* the last run was a site synthesis whose model call returned
SiteRunReturned == run.button = "site" /\ run.raw # None

\* C1: when site generation is triggered, the user turn sent to the model holds the
\* review editor's current contents (the edited text), not the text the
\* Specification Generator returned.
C1_EditedTextIsSent ==
    (run.button = "site" /\ spec_editor # None /\ spec_editor[1] \in EditTexts) =>
        /\ Len(run.calls) = 1
        /\ run.calls[1][2].role = "user"
        /\ run.calls[1][2].text = SITE_USER_PREFIX \o spec_editor[1]

\* C2: a model call that fails in either action is caught and shown as an error
\* message; the exception never leaves the action uncaught.
C2_ModelFailureIsCaught ==
    (run.failure = "model") =>
        /\ ~run.escaped
        /\ \E i \in 1..Len(run.shown) : run.shown[i].kind = "error"

\* C3: a site synthesis whose response lacks a marker raises nothing, stores the
\* empty text for every segment whose marker occurs fewer than twice and the
\* trimmed text between the first two occurrences of its marker for every other
\* segment, and does not invoke the packager.
C3_PartialParse ==
    (SiteRunReturned /\ \E k \in 1..3 : Occurs(run.raw[1], Markers[k]) < 2) =>
        /\ ~run.escaped
        /\ \A k \in 1..3 :
            StoredSegments[k] =
                IF Occurs(run.raw[1], Markers[k]) < 2 THEN <<>>
                ELSE strip(Between(run.raw[1], Markers[k]))
        /\ ~run.packaged

\* a response without its html markers, whose css segment is stored trimmed
C3_Witness ==
    /\ SiteRunReturned
    /\ Occurs(run.raw[1], MARKER_HTML) = 0
    /\ Occurs(run.raw[1], MARKER_CSS) = 2
    /\ html_code = <<>>
    /\ css_code = <<98>>
    /\ ~run.packaged

\* no segment of the input contains a marker
NoMarkerInSegments ==
    \A k \in 1..3 : \A m \in 1..3 : OccurrencesAt(fin.segments[k], Markers[m]) = {}

\* where the opening marker of segment k stands in the response made of the input
OpenAt(input, k) ==
    IF k = 1 THEN 1
    ELSE IF k = 2 THEN 1 + 2 * Len(Markers[1]) + Len(input.segments[1]) + Len(input.sep)
    ELSE 1 + 2 * Len(Markers[1]) + Len(input.segments[1]) + Len(input.sep)
           + 2 * Len(Markers[2]) + Len(input.segments[2]) + Len(input.sep)

\* where its closing marker stands
CloseAt(input, k) == OpenAt(input, k) + Len(Markers[k]) + Len(input.segments[k])

\* every marker occurs in the response at its two delimiter positions only
MarkersOnlyDelimit ==
    \A k \in 1..3 :
        OccurrencesAt(RawOf(fin), Markers[k]) = {OpenAt(fin, k), CloseAt(fin, k)}

\* the three segments of the input, trimmed
Trimmed ==
    [html |-> strip(fin.segments[1]), css |-> strip(fin.segments[2]),
     js |-> strip(fin.segments[3])]

\* C4, as claimed: for every response made of the three marker pairs in order around
\* segments none of which contains a marker, the parser returns the trimmed segments.
C4_NoMarkerInSegments ==
    (fpc = "done" /\ NoMarkerInSegments) => fout = Trimmed

\* C4, amended: for every response made of the three marker pairs in order in which
\* each marker occurs at its two delimiter positions only, the parser returns the
\* trimmed segments.
C4_MarkersOnlyDelimit ==
    (fpc = "done" /\ MarkersOnlyDelimit) => fout = Trimmed

\* a response whose html segment ' x' has whitespace to trim and whose css segment
\* holds dashes
C4_Witness ==
    /\ fpc = "done"
    /\ MarkersOnlyDelimit
    /\ fin.segments = <<<<32, 120>>, <<45, 45>>, <<120>>>>
    /\ fout = [html |-> <<120>>, css |-> <<45, 45>>, js |-> <<120>>]

\* C5: the archive of three nonempty texts has exactly the entries index.html,
\* style.css, script.js, in that order, and reading them back gives the three texts.
C5_ArchiveRoundTrip ==
    (fpc = "done") =>
        /\ namelist(fout) = <<"index.html", "style.css", "script.js">>
        /\ read_text(fout, "index.html") = fin.html
        /\ read_text(fout, "style.css") = fin.css
        /\ read_text(fout, "script.js") = fin.js

\* an archive of texts that need two, three and four bytes a code point
C5_Witness ==
    /\ fpc = "done"
    /\ fin.html = <<8364, 128512>>
    /\ fin.css = <<233, 10>>
    /\ Len(fout[1].data) = 7
    /\ read_text(fout, "index.html") = fin.html

\* the file's declared type and its name are both unrecognized
Unrecognized(file) ==
    /\ file.type \notin {TYPE_PDF, TYPE_DOCX, TYPE_MSWORD}
    /\ ~endswith(lower(file.name), SUFFIX_PDF)
    /\ ~endswith(lower(file.name), SUFFIX_DOCX)

\* the error message of the extraction is on the page
ExtractionErrorShown == \E i \in 1..Len(run.shown) : run.shown[i] = Error(MSG_NO_TEXT)

\* C6: a specification run on a file whose type is unrecognized, or whose extraction
\* returns text with nothing but whitespace in it, has no usable text, shows the
\* extraction error and makes no model call.
C6_NoTextNoModelCall ==
    (/\ run.button = "spec"
     /\ run.file # None
     /\ \/ Unrecognized(run.file[1])
        \/ run.resume # None /\ strip(run.resume[1]) = <<>>) =>
        /\ run.resume # None
        /\ strip(run.resume[1]) = <<>>
        /\ ExtractionErrorShown
        /\ run.calls = <<>>
        /\ ~run.escaped

\* a PDF declared as one whose pages have no text: the extracted text is a line feed
C6_Witness ==
    /\ run.button = "spec"
    /\ run.file # None
    /\ run.file[1].type = TYPE_PDF
    /\ run.resume = Some(NEWLINE)
    /\ ExtractionErrorShown
    /\ run.calls = <<>>

\* C7: a file whose declared media type is recognized goes to the extractor of that
\* media type whatever its name is.
C7_TypeBeforeName ==
    (run.button = "spec" /\ run.file # None) =>
        /\ run.file[1].type = TYPE_PDF => run.extractor = "pdf"
        /\ run.file[1].type \in {TYPE_DOCX, TYPE_MSWORD} => run.extractor = "docx"

\* the number of style blocks of a document: the places a style tag opens
StyleBlocks(doc) == Cardinality(OccurrencesAt(lower(doc), STYLE_OPEN))

\* the body content of a document: what stands between the first <body> and the
\* last </body>
BodyContent(doc) ==
    LET first == find(lower(doc), BODY_OPEN)
        ends  == OccurrencesAt(lower(doc), BODY_CLOSE)
        last  == CHOOSE i \in ends : \A j \in ends : j <= i
    IN SubSeq(doc, first + Len(BODY_OPEN), last - 1)

\* C8, as claimed: the themed document has exactly one style block and the fragment,
\* unmodified, as its body content.
C8_ExactlyOneStyleBlock ==
    (fpc = "done") =>
        /\ StyleBlocks(fout.themed) = 1
        /\ BodyContent(fout.themed) = fin

\* C8, amended: the themed document has exactly one style block more than the
\* fragment has, and the fragment, unmodified, as its body content.
C8_OneStyleBlockAdded ==
    (fpc = "done") =>
        /\ StyleBlocks(fout.themed) = StyleBlocks(fin) + 1
        /\ BodyContent(fout.themed) = fin

\* a fragment with a style block and a </body> of its own
C8_Witness ==
    /\ fpc = "done"
    /\ StyleBlocks(fin) = 1
    /\ OccurrencesAt(fin, BODY_CLOSE) # {}
    /\ StyleBlocks(fout.themed) = 2
    /\ BodyContent(fout.themed) = fin

\* C9: whenever an archive is offered, its three entries are the stored html_code,
\* css_code and js_code.
C9_ArchiveMatchesBundle ==
    (zip_bytes # None) =>
        /\ read_text(zip_bytes[1], "index.html") = html_code
        /\ read_text(zip_bytes[1], "style.css") = css_code
        /\ read_text(zip_bytes[1], "script.js") = js_code

\* C10: the success message of the specification action is shown only in a run that
\* called the model and stored its reply, never in a run that showed the extraction
\* error.
C10_SuccessOnlyAfterStore ==
    (/\ run.button = "spec"
     /\ \E i \in 1..Len(run.shown) : run.shown[i] = Success(MSG_SPEC_OK)) =>
        /\ Len(run.calls) = 1
        /\ run.stored
        /\ ~ExtractionErrorShown

====
